---- MODULE Spec2Model ----
(***************************************************************************)
(* git_revision: a Pelican plugin that attaches to every article and page  *)
(* the chain of its historical revisions, read from the git history of    *)
(* its source file (src/__init__.py).                                     *)
(*                                                                         *)
(* Strings are sequences of tokens.  A token is one of the separator      *)
(* characters "/", "." and "\\", or an indivisible run of other           *)
(* characters ("a", "index", "html", a commit's hexsha, ...).             *)
(* An attribute that may be absent (hasattr) is a sequence: <<>> when the *)
(* object has no such attribute, <<v>> when it has it with value v.       *)
(***************************************************************************)
EXTENDS Integers, Sequences, FiniteSets, TLC

\* Bounds of the model.
MaxCommits == 3
MaxDate == 2
MaxUrlLen == 3
MaxSaveAsLen == 3
MaxPathLen == 3
MaxDepth == 2

--------------------------------------------------------------------------
\* Strings and the path functions of posixpath / os.path

Max(S) == CHOOSE x \in S : \A y \in S : y <= x

\* str.rfind(c) + 1: the 1-based position of the last c, 0 when there is none.
RFind(p, c) ==
    LET S == {i \in 1..Len(p) : p[i] = c}
    IN  IF S = {} THEN 0 ELSE Max(S)

\* p[:i] and p[i:] of Python, i counted as by RFind.
Upto(p, i) == SubSeq(p, 1, i)
From(p, i) == SubSeq(p, i + 1, Len(p))

EndsWithSlash(p) == Len(p) > 0 /\ p[Len(p)] = "/"
StartsWithSlash(p) == Len(p) > 0 /\ p[1] = "/"
AllSlashes(p) == \A i \in 1..Len(p) : p[i] = "/"

\* str.rstrip('/')
RStripSlash(p) ==
    LET S == {i \in 1..Len(p) : p[i] # "/"}
    IN  IF S = {} THEN <<>> ELSE SubSeq(p, 1, Max(S))

\* posixpath.split: head loses its trailing slashes unless it is all slashes.
PosixSplit(p) ==
    LET i == RFind(p, "/")
        head == Upto(p, i)
    IN  << IF head # <<>> /\ ~AllSlashes(head) THEN RStripSlash(head) ELSE head,
           From(p, i) >>

PosixDirname(p) == PosixSplit(p)[1]
PosixBasename(p) == From(p, RFind(p, "/"))

\* genericpath._splitext: the extension starts at the last dot that comes
\* after the last slash and after some character of the name that is no dot.
Splitext(p) ==
    LET sepIndex == RFind(p, "/")
        dotIndex == RFind(p, ".")
    IN  IF dotIndex > sepIndex
           /\ \E k \in (sepIndex + 1)..(dotIndex - 1) : p[k] # "."
        THEN << SubSeq(p, 1, dotIndex - 1), SubSeq(p, dotIndex, Len(p)) >>
        ELSE << p, <<>> >>

\* posixpath.join(a, *ps), ps a sequence of components.
RECURSIVE PosixJoin(_, _)
PosixJoin(a, ps) ==
    IF ps = <<>> THEN a
    ELSE LET b == ps[1]
             path == IF StartsWithSlash(b) THEN b
                     ELSE IF a = <<>> \/ EndsWithSlash(a) THEN a \o b
                     ELSE a \o <<"/">> \o b
         IN  PosixJoin(path, Tail(ps))

\* str.replace('\\', '/')
ReplaceBackslash(p) == [i \in 1..Len(p) |-> IF p[i] = "\\" THEN "/" ELSE p[i]]

IsPrefix(a, p) == Len(a) <= Len(p) /\ SubSeq(p, 1, Len(a)) = a

\* os.path.relpath(path, start) for a path below start.
RelPath(path, start) ==
    IF IsPrefix(start \o <<"/">>, path)
    THEN SubSeq(path, Len(start) + 2, Len(path))
    ELSE path

Reverse(s) == [i \in 1..Len(s) |-> s[Len(s) + 1 - i]]

--------------------------------------------------------------------------
\* The environment: the file system, the repository and the host's documents

VARIABLES
    gitlog,     \* what repository.iter_commits returns: the commits, newest first
    doc,        \* the content objects: identity -> attributes
    lists,      \* the list objects `revisions`, one per live document's build
    stack,      \* the call stack of on_content_object_init (signals are synchronous)
    cache,      \* discover_repository's lru_cache: argument -> memoized result
    sent,       \* the revisions content_object_init was sent for at line 126
    last,       \* the outermost invocation of the hook: its content and how it ended
    written,    \* the calls of writer.write_file
    finalized,  \* the content types whose writer_finalized signal was handled
    pathIn,     \* inputs of the output-path computation checked on its own
    pathOut,    \* its results
    worktrees,  \* the directories of the file system that hold a .git
    earlier,    \* a call of discover_repository checked on its own
    later       \* the call that follows it

mainVars == <<gitlog, doc, lists, stack, cache, sent, last, written, finalized>>
pathVars == <<pathIn, pathOut>>
locatorVars == <<worktrees, earlier, later>>
vars == <<mainVars, pathVars, locatorVars>>

None == <<"None", 0>>
Names == {"A", "B", "S", "X"}
Live(n) == <<n, 0>>
Rev(n, i) == <<n, i>>
NameOf(o) == o[1]
IsLive(o) == o[2] = 0

Hexshas == <<"h1", "h2", "h3", "h4", "h5", "h6">>

WorkingDir == <<"/", "r">>
PathA == <<"/", "r", "/", "a", ".", "md">>
PathB == <<"/", "r", "/", "b", ".", "md">>
PathS == <<"/", "r", "/", "s", ".", "css">>
PathX == <<"/", "x", "/", "c", ".", "md">>

\* The directory of the files of tempfile.mkstemp; it lies in no repository.
TmpDir == <<"/", "t">>

\* SafeDatetime.fromtimestamp and pelican.utils.strftime
FromTimestamp(t) == [epoch |-> t]
Strftime(dt) == [text |-> dt.epoch]

\* The date the host's reader takes from a document's own metadata.
HostDate == [epoch |-> MaxDate + 1]
HostModified == [epoch |-> MaxDate + 2]

--------------------------------------------------------------------------
\* discover_repository and make_repository_file_path

\* git.Repo(root) succeeds where root is the working directory of a
\* repository and raises InvalidGitRepositoryError elsewhere.
\* The working directory of the process, which a relative path and the empty
\* path stand for.
Cwd == <<"/", "d">>

\* The names in a path: what lies between its slashes, where anything does.
RECURSIVE Components(_)
Components(p) ==
    LET S == {i \in 1..Len(p) : p[i] = "/"}
    IN  IF p = <<>> THEN <<>>
        ELSE IF S = {} THEN <<p>>
        ELSE LET i == CHOOSE x \in S : \A y \in S : x <= y
                 rest == Components(SubSeq(p, i + 1, Len(p)))
             IN  IF i = 1 THEN rest ELSE <<SubSeq(p, 1, i - 1)>> \o rest

\* The directory a path names, as the names from the root down: a relative
\* path starts at the working directory, and slashes that repeat or trail
\* name nothing.
Directory(path) ==
    Components(IF StartsWithSlash(path) THEN path ELSE Cwd \o <<"/">> \o path)

\* git.Repo(root) looks at root itself, not at its parents: it returns the
\* repository whose working tree is that directory and raises
\* InvalidGitRepositoryError when the directory holds no .git.
IsGitRepo(root) == \E w \in worktrees : Directory(w) = Directory(root)
Repo(root) == CHOOSE w \in worktrees : Directory(w) = Directory(root)

\* The loop of discover_repository: `first` is "tail is None".  The result is
\* <<working_dir>> for a repository and <<>> for None; probes are the
\* arguments of git.Repo in the order of the calls.
RECURSIVE Walk(_, _, _, _)
Walk(root, first, tail, probes) ==
    IF first \/ tail # <<>>
    THEN IF IsGitRepo(root)
         THEN [result |-> <<Repo(root)>>, probes |-> Append(probes, root)]
         ELSE LET split == PosixSplit(root)
              IN  Walk(split[1], FALSE, split[2], Append(probes, root))
    ELSE [result |-> <<>>, probes |-> probes]

discover_repository(path) == Walk(path, TRUE, <<>>, <<>>)

\* No call is memoized yet.
NoCache == [path \in {} |-> <<>>]

\* Mutant of lru_cache: the result of a call is not stored.
lru_cache_NoStore(c, path) ==
    IF path \in DOMAIN c
    THEN [result |-> c[path], cache |-> c, probes |-> <<>>]
    ELSE LET call == discover_repository(path)
         IN  [result |-> call.result, cache |-> c, probes |-> call.probes]

\* functools.lru_cache(None) around discover_repository: a call with an
\* argument that is memoized returns the memoized result and runs nothing;
\* any other call runs the function and memoizes what it returns.
lru_cache(c, path) ==
    IF path \in DOMAIN c
    THEN [result |-> c[path], cache |-> c, probes |-> <<>>]
    ELSE LET call == discover_repository(path)
         IN  [result |-> call.result,
              cache |-> (path :> call.result) @@ c,
              probes |-> call.probes]

make_repository_file_path(working_dir, path) ==
    ReplaceBackslash(RelPath(path, working_dir))

\* repository.iter_commits(paths=path): the commits that touch path.
IterCommits(path) == SelectSeq(gitlog, LAMBDA c : path \in c.paths)

--------------------------------------------------------------------------
\* on_content_object_init: the values it computes

\* Mutant of IsStatic: static content is not told apart.
IsStatic_Never(content) == FALSE

\* Line 32.
IsStatic(content) == content.cls = "Static"

\* Mutant of HasGit: the guard of line 53 never holds.
HasGit_Never(content) == FALSE

\* Line 53.
HasGit(content) == content.git # <<>>
HasDate(content) == content.date # <<>>
HasModified(content) == content.modified # <<>>

SourceDir(content) == PosixDirname(content.source_path)
Repository(content) == lru_cache(cache, SourceDir(content)).result
RepositoryFilePath(content) ==
    make_repository_file_path(Repository(content)[1], content.source_path)

\* Mutant of Commits: the list is not reversed.
Commits_NotReversed(content) == IterCommits(RepositoryFilePath(content))

\* commits = list(iter_commits(...)); commits.reverse()
Commits(content) == Reverse(IterCommits(RepositoryFilePath(content)))

git_class(commit, file_path, revisions, previous_revision, next_revision) ==
    [commit |-> commit, file_path |-> file_path, revisions |-> revisions,
     previous_revision |-> previous_revision, next_revision |-> next_revision]

\* Mutant of Created: a date the reader gave is kept.
Created_KeepsReaderDate(content) ==
    IF content.date # <<>> THEN content.date[1]
    ELSE FromTimestamp(content.git[1].commit.authored_date)

\* Lines 54-56: the date a content that carries a chain is given.
Created(content) == FromTimestamp(content.git[1].commit.authored_date)

\* Mutant of ReentryDocs: the content's own modified is overwritten too.
ReentryDocs_OwnModified(d, o) ==
    LET created == FromTimestamp(d[o].git[1].commit.authored_date)
        previous_revision == d[o].git[1].previous_revision
        d1 == [d EXCEPT ![o].date = <<created>>,
                        ![o].locale_date = <<Strftime(created)>>,
                        ![o].modified = <<created>>,
                        ![o].locale_modified = <<Strftime(created)>>]
    IN  IF previous_revision = None THEN d1
        ELSE [d1 EXCEPT ![previous_revision].modified = <<created>>,
                        ![previous_revision].locale_modified = <<Strftime(created)>>]

\* Lines 54-66 on the object o of the heap d.
ReentryDocs(d, o) ==
    LET created == Created(d[o])
        previous_revision == d[o].git[1].previous_revision
        d1 == [d EXCEPT ![o].date = <<created>>,
                        ![o].locale_date = <<Strftime(created)>>]
    IN  IF previous_revision = None THEN d1
        ELSE [d1 EXCEPT ![previous_revision].modified = <<created>>,
                        ![previous_revision].locale_modified = <<Strftime(created)>>]

\* Mutant of InferDates: modified is inferred whether or not the first
\* commit is the latest one.
InferDates_SingleCommitModified(content, commits) ==
    LET created == FromTimestamp(commits[1].authored_date)
        modified == FromTimestamp(commits[Len(commits)].authored_date)
        c1 == IF ~HasDate(content)
              THEN [content EXCEPT !.date = <<created>>,
                                   !.locale_date = <<Strftime(created)>>]
              ELSE content
    IN  IF ~HasModified(c1)
        THEN [c1 EXCEPT !.modified = <<modified>>,
                        !.locale_modified = <<Strftime(modified)>>]
        ELSE c1

\* Mutant of InferDates: nothing is inferred before the revisions are read.
InferDates_Nothing(content, commits) == content

\* Lines 73-81 on a fresh live document.
InferDates(content, commits) ==
    LET first_commit == commits[1]
        latest_commit == commits[Len(commits)]
        created == FromTimestamp(first_commit.authored_date)
        modified == FromTimestamp(latest_commit.authored_date)
        c1 == IF ~HasDate(content)
              THEN [content EXCEPT !.date = <<created>>,
                                   !.locale_date = <<Strftime(created)>>]
              ELSE content
    IN  IF first_commit # latest_commit /\ ~HasModified(c1)
        THEN [c1 EXCEPT !.modified = <<modified>>,
                        !.locale_modified = <<Strftime(modified)>>]
        ELSE c1

\* Mutant of RevisionSaveAs: the root is a segment even when it is "index".
RevisionSaveAs_KeepsIndex(url, save_as, hexsha) ==
    LET filename == PosixBasename(save_as)
        root == Splitext(filename)[1]
        extension == Splitext(filename)[2]
    IN  PosixJoin(IF EndsWithSlash(url) THEN url ELSE PosixDirname(url),
                  << root, <<hexsha>>, <<"index">> \o extension >>)

\* Lines 98-107: override_save_as.
RevisionSaveAs(url, save_as, hexsha) ==
    LET filename == PosixBasename(save_as)
        root == Splitext(filename)[1]
        extension == Splitext(filename)[2]
    IN  PosixJoin(IF EndsWithSlash(url) THEN url ELSE PosixDirname(url),
                  << IF root # <<"index">> THEN root ELSE <<>>,
                     <<hexsha>>,
                     <<"index">> \o extension >>)

\* Line 108: override_url.
RevisionUrl(save_as) == PosixDirname(save_as)

\* Lines 93-108: the revision read from commit's blob for the live content.
\* The reader gives it the class of the live document and the dates of its
\* metadata; the file keeps its metadata header through its history.
ReadRevision(content, commit) ==
    LET save_as == RevisionSaveAs(content.url, content.save_as, commit.hexsha)
    IN  [cls |-> content.cls,
         source_path |-> content.source_path,
         metadata |-> content.metadata,
         date |-> content.metadata.date,
         locale_date |-> IF content.metadata.date = <<>> THEN <<>>
                         ELSE <<Strftime(content.metadata.date[1])>>,
         modified |-> content.metadata.modified,
         locale_modified |-> IF content.metadata.modified = <<>> THEN <<>>
                             ELSE <<Strftime(content.metadata.modified[1])>>,
         url |-> RevisionUrl(save_as),
         save_as |-> save_as,
         template |-> content.template,
         category |-> content.category,
         git |-> <<>>]

\* Mutant of Raises: what materializing raises is swallowed.
Raises_Swallowed(commit) == FALSE

\* Lines 86-95: commit.tree / path and read_file raise for a commit that
\* cannot be materialized, and nothing in the hook catches what they raise.
Raises(commit) == commit.broken # "ok"

\* Mutant of PreviousRevision: the bound of the index test is off by one.
PreviousRevision_OffByOne(revisions, index) ==
    IF index > 2 THEN revisions[index - 1] ELSE None

\* Line 114.
PreviousRevision(revisions, index) ==
    IF index > 1 THEN revisions[index - 1] ELSE None

\* Mutant of NextRevision: no special case for the second to last revision.
NextRevision_NoLive(content, revisions, index) ==
    IF index < Len(revisions) THEN revisions[index + 1] ELSE None

\* Mutant of NextRevision: the special case is taken by the last revision in
\* place of the second to last.
NextRevision_LastToLive(content, revisions, index) ==
    IF index = Len(revisions) THEN content
    ELSE IF index < Len(revisions) THEN revisions[index + 1]
    ELSE None

\* Lines 119-121 (index counts from 1, so "second to last" is Len - 1).
NextRevision(content, revisions, index) ==
    IF index = Len(revisions) - 1 THEN content
    ELSE IF index < Len(revisions) THEN revisions[index + 1]
    ELSE None

\* Mutant of LivePrevious: revisions[-1] in place of revisions[-2].
LivePrevious_Last(revisions) ==
    IF Len(revisions) > 1 THEN revisions[Len(revisions)] ELSE None

\* Line 129.
LivePrevious(revisions) ==
    IF Len(revisions) > 1 THEN revisions[Len(revisions) - 1] ELSE None

--------------------------------------------------------------------------
\* Initial states

\* A history of n commits, newest first.  Every commit touches a.md and
\* s.css; b.md was added by the second commit.  At most one commit cannot be
\* materialized: its tree lacks the blob (commit.tree / path raises KeyError)
\* or the reader rejects its content.
Brokens(n) ==
    {[pos |-> 0, kind |-> "ok"]}
    \cup {[pos |-> j, kind |-> k] : j \in 1..n, k \in {"KeyError", "ReadError"}}

LogsOf(n) ==
    { [j \in 1..n |->
          [hexsha |-> Hexshas[n + 1 - j],
           authored_date |-> ds[j],
           paths |-> IF j = n THEN {<<"a", ".", "md">>, <<"s", ".", "css">>}
                     ELSE {<<"a", ".", "md">>, <<"b", ".", "md">>, <<"s", ".", "css">>},
           broken |-> IF j = bk.pos THEN bk.kind ELSE "ok"]]
      : ds \in [1..n -> 1..MaxDate], bk \in Brokens(n) }

GitLogs == UNION {LogsOf(n) : n \in 0..MaxCommits}

Document(cls, source_path, metadata, url, save_as) ==
    [cls |-> cls,
     source_path |-> source_path,
     metadata |-> metadata,
     date |-> metadata.date,
     locale_date |-> IF metadata.date = <<>> THEN <<>>
                     ELSE <<Strftime(metadata.date[1])>>,
     modified |-> metadata.modified,
     locale_modified |-> IF metadata.modified = <<>> THEN <<>>
                         ELSE <<Strftime(metadata.modified[1])>>,
     url |-> url,
     save_as |-> save_as,
     template |-> IF cls = "Page" THEN "page" ELSE "article",
     category |-> "misc",
     git |-> <<>>]

Metadatas == [date : {<<>>, <<HostDate>>}, modified : {<<>>, <<HostModified>>}]

InitMainWith(log, m) ==
    /\ gitlog = log
    /\  doc = (Live("A") :> Document("Article", PathA, m,
                                      <<"p", "/", "a", ".", "html">>,
                                      <<"p", "/", "a", ".", "html">>))
            @@ (Live("B") :> Document("Page", PathB,
                                      [date |-> <<HostDate>>, modified |-> <<>>],
                                      <<"p", "/", "a", "/">>,
                                      <<"p", "/", "a", "/", "index", ".", "html">>))
            @@ (Live("S") :> Document("Static", PathS,
                                      [date |-> <<>>, modified |-> <<>>],
                                      <<"s", ".", "css">>, <<"s", ".", "css">>))
            @@ (Live("X") :> Document("Article", PathX,
                                      [date |-> <<HostDate>>, modified |-> <<>>],
                                      <<"c", ".", "html">>, <<"c", ".", "html">>))
    /\ lists = [n \in Names |-> <<>>]
    /\ stack = <<>>
    /\ cache = NoCache
    /\ sent = <<>>
    /\ last = [content |-> None, result |-> "none"]
    /\ written = <<>>
    /\ finalized = {}

NoPaths == [url |-> <<>>, save_as |-> <<>>]
NoCalls == earlier = <<>> /\ later = <<>>

Init ==
    /\ \E log \in GitLogs, m \in Metadatas : InitMainWith(log, m)
    /\ pathIn = NoPaths
    /\ pathOut = <<>>
    /\ worktrees = {WorkingDir}
    /\ NoCalls

--------------------------------------------------------------------------
\* on_content_object_init, statement by statement

Frame(o, pc, index) == [content |-> o, pc |-> pc, index |-> index]
Top == stack[Len(stack)]
Pop == SubSeq(stack, 1, Len(stack) - 1)
SetTop(f) == [stack EXCEPT ![Len(stack)] = f]

\* The hook returns; `last` records it when the outermost call returns.
Return ==
    /\ stack' = Pop
    /\ last' = IF Len(stack) = 1 THEN [last EXCEPT !.result = "returned"] ELSE last

\* The host sends content_object_init for a content object (Content.__init__).
HostSend(o) ==
    /\ stack = <<>>
    /\ finalized = {}
    /\ stack' = <<Frame(o, "enter", 0)>>
    /\ last' = [content |-> o, result |-> "running"]
    /\ UNCHANGED <<gitlog, doc, lists, cache, sent, written, finalized, pathVars, locatorVars>>

Entering == stack # <<>> /\ Top.pc = "enter"

\* Lines 32-33.
ReturnStatic ==
    /\ Entering
    /\ IsStatic(doc[Top.content])
    /\ Return
    /\ UNCHANGED <<gitlog, doc, lists, cache, sent, written, finalized, pathVars, locatorVars>>

\* Lines 35-38.
ReturnNoRepository ==
    /\ Entering
    /\ ~IsStatic(doc[Top.content])
    /\ Repository(doc[Top.content]) = <<>>
    /\ cache' = lru_cache(cache, SourceDir(doc[Top.content])).cache
    /\ Return
    /\ UNCHANGED <<gitlog, doc, lists, sent, written, finalized, pathVars, locatorVars>>

InRepository ==
    /\ Entering
    /\ ~IsStatic(doc[Top.content])
    /\ Repository(doc[Top.content]) # <<>>
    /\ cache' = lru_cache(cache, SourceDir(doc[Top.content])).cache

\* Lines 40-47.
ReturnNoCommits ==
    /\ InRepository
    /\ Commits(doc[Top.content]) = <<>>
    /\ Return
    /\ UNCHANGED <<gitlog, doc, lists, sent, written, finalized, pathVars, locatorVars>>

\* Lines 53-70.
Reentry ==
    /\ InRepository
    /\ Commits(doc[Top.content]) # <<>>
    /\ HasGit(doc[Top.content])
    /\ doc' = ReentryDocs(doc, Top.content)
    /\ Return
    /\ UNCHANGED <<gitlog, lists, sent, written, finalized, pathVars, locatorVars>>

\* Lines 73-84.
EnterFresh ==
    /\ InRepository
    /\ Commits(doc[Top.content]) # <<>>
    /\ ~HasGit(doc[Top.content])
    /\ doc' = [doc EXCEPT ![Top.content] = InferDates(@, Commits(@))]
    /\ lists' = [lists EXCEPT ![NameOf(Top.content)] = <<>>]
    /\ stack' = SetTop(Frame(Top.content, "materialize", 1))
    /\ UNCHANGED <<gitlog, sent, last, written, finalized, pathVars, locatorVars>>

\* Lines 85-110, one iteration that succeeds.  The reader's construction of
\* the revision sends content_object_init itself (the TODO of line 125), when
\* the revision's source_path is still the temporary file: that invocation
\* finds no repository, memoizes the lookup and returns at line 38.
Materialize ==
    /\ stack # <<>>
    /\ Top.pc = "materialize"
    /\ LET o == Top.content
           commits == Commits(doc[o])
           commit == commits[Top.index]
           revision == Rev(NameOf(o), Top.index)
       IN  /\ ~Raises(commit)
           /\ doc' = (revision :> ReadRevision(doc[o], commit)) @@ doc
           /\ lists' = [lists EXCEPT ![NameOf(o)] = Append(@, revision)]
           /\ stack' = SetTop(IF Top.index < Len(commits)
                              THEN Frame(o, "materialize", Top.index + 1)
                              ELSE Frame(o, "link", 1))
    /\ cache' = lru_cache(cache, TmpDir).cache
    /\ UNCHANGED <<gitlog, sent, last, written, finalized, pathVars, locatorVars>>

\* Lines 86 and 93 raising: the exception leaves the hook, and the revisions
\* read so far and their list, held by locals only, are gone.
MaterializeRaises ==
    /\ stack # <<>>
    /\ Top.pc = "materialize"
    /\ LET o == Top.content
           commit == Commits(doc[o])[Top.index]
       IN  /\ Raises(commit)
           /\ doc' = [x \in {y \in DOMAIN doc : IsLive(y) \/ NameOf(y) # NameOf(o)}
                        |-> doc[x]]
           /\ lists' = [lists EXCEPT ![NameOf(o)] = <<>>]
           /\ last' = [content |-> stack[1].content, result |-> commit.broken]
    /\ stack' = <<>>
    /\ UNCHANGED <<gitlog, cache, sent, written, finalized, pathVars, locatorVars>>

\* Mutant of LinkCommit: every revision is anchored at the latest commit.
LinkCommit_Latest(commits, index) == commits[Len(commits)]

\* Line 113: zip(commits, revisions) pairs each revision with its commit.
LinkCommit(commits, index) == commits[index]

\* Lines 113-126, one iteration: the chain of one revision, then the signal,
\* whose handler runs before the loop goes on.
Link ==
    /\ stack # <<>>
    /\ Top.pc = "link"
    /\ LET o == Top.content
           commits == Commits(doc[o])
           revisions == lists[NameOf(o)]
           index == Top.index
           revision == revisions[index]
       IN  /\ doc' = [doc EXCEPT ![revision].git =
                        <<git_class(LinkCommit(commits, index),
                                    RepositoryFilePath(doc[o]),
                                    NameOf(o),
                                    PreviousRevision(revisions, index),
                                    NextRevision(o, revisions, index))>>]
           /\ sent' = Append(sent, revision)
           /\ stack' = Append(SetTop(IF index < Len(revisions)
                                     THEN Frame(o, "link", index + 1)
                                     ELSE Frame(o, "attach", 0)),
                              Frame(revision, "enter", 0))
    /\ UNCHANGED <<gitlog, lists, cache, last, written, finalized, pathVars, locatorVars>>

\* Lines 129-130.
Attach ==
    /\ stack # <<>>
    /\ Top.pc = "attach"
    /\ LET o == Top.content
           commits == Commits(doc[o])
           revisions == lists[NameOf(o)]
       IN  doc' = [doc EXCEPT ![o].git =
                     <<git_class(commits[Len(commits)], RepositoryFilePath(doc[o]),
                                 NameOf(o), LivePrevious(revisions), None)>>]
    /\ Return
    /\ UNCHANGED <<gitlog, lists, cache, sent, written, finalized, pathVars, locatorVars>>

--------------------------------------------------------------------------
\* on_content_writer_finalized

Articles == <<Live("A"), Live("X")>>
Pages == <<Live("B")>>

\* generator.get_template
GetTemplate(name) == [template |-> name]

\* Mutant of WritesOf: the newest revision, which repeats the live page, is
\* not written.
WritesOf_SkipsNewest(d, ls, content_type, o) ==
    [i \in 1..(Len(ls[d[o].git[1].revisions]) - 1) |->
        LET revision == ls[d[o].git[1].revisions][i]
        IN  [name |-> d[revision].save_as,
             template |-> GetTemplate(d[revision].template),
             content_type |-> content_type,
             content |-> revision,
             category |-> d[revision].category]]

\* Lines 143-149 for one content that carries a chain.
WritesOf(d, ls, content_type, o) ==
    [i \in 1..Len(ls[d[o].git[1].revisions]) |->
        LET revision == ls[d[o].git[1].revisions][i]
        IN  [name |-> d[revision].save_as,
             template |-> GetTemplate(d[revision].template),
             content_type |-> content_type,
             content |-> revision,
             category |-> d[revision].category]]

\* Lines 139-149.
RECURSIVE WritesOfAll(_, _, _, _)
WritesOfAll(d, ls, content_type, contents) ==
    IF contents = <<>> THEN <<>>
    ELSE (IF ~HasGit(d[contents[1]]) THEN <<>>
          ELSE WritesOf(d, ls, content_type, contents[1]))
         \o WritesOfAll(d, ls, content_type, Tail(contents))

on_content_writer_finalized(content_type) ==
    /\ stack = <<>>
    /\ content_type \notin finalized
    /\ LET contents == IF content_type = "article" THEN Articles ELSE Pages
       IN  written' = written \o WritesOfAll(doc, lists, content_type, contents)
    /\ finalized' = finalized \cup {content_type}
    /\ UNCHANGED <<gitlog, doc, lists, stack, cache, sent, last, pathVars, locatorVars>>

\* Lines 152-153.  The host runs its generators in their fixed order, the
\* articles' before the pages'.
on_article_writer_finalized == on_content_writer_finalized("article")
on_page_writer_finalized ==
    /\ "article" \in finalized
    /\ on_content_writer_finalized("page")

--------------------------------------------------------------------------
\* The host constructs the live documents only; a revision gets the signal
\* from line 126.
Send == \E n \in Names : HostSend(Live(n))

Next ==
    \/ Send
    \/ ReturnStatic
    \/ ReturnNoRepository
    \/ ReturnNoCommits
    \/ Reentry
    \/ EnterFresh
    \/ Materialize
    \/ MaterializeRaises
    \/ Link
    \/ Attach
    \/ on_article_writer_finalized
    \/ on_page_writer_finalized

Spec == Init /\ [][Next]_vars

--------------------------------------------------------------------------
\* The output-path computation of lines 98-108 on its own: the url and the
\* save_as of a live document are drawn from all the strings over Alphabet up
\* to a length, and the paths of two commits' revisions are computed.

Alphabet == {"/", ".", "a", "index"}
Strings(n) == UNION {[1..k -> Alphabet] : k \in 0..n}

InitPaths ==
    /\ InitMainWith(<<>>, [date |-> <<>>, modified |-> <<>>])
    /\ pathIn \in [url : Strings(MaxUrlLen), save_as : Strings(MaxSaveAsLen)]
    /\ pathOut = <<>>
    /\ worktrees = {WorkingDir}
    /\ NoCalls

ComputeRevisionPaths ==
    /\ pathOut = <<>>
    /\ pathOut' = [i \in 1..2 |->
                     LET save_as == RevisionSaveAs(pathIn.url, pathIn.save_as, Hexshas[i])
                     IN  [hexsha |-> Hexshas[i], save_as |-> save_as,
                          url |-> RevisionUrl(save_as)]]
    /\ UNCHANGED <<mainVars, pathIn, locatorVars>>

NextPaths == ComputeRevisionPaths

SpecPaths == InitPaths /\ [][NextPaths]_vars

--------------------------------------------------------------------------
\* discover_repository on its own.  The file system is a tree in which every
\* directory named by "r" and "d" exists, so git.Repo raises nothing but
\* InvalidGitRepositoryError; the root, the directory /r, both or neither
\* hold a .git.  Two calls are made, the later one with the cache the earlier
\* one left: each is a call of the function with any path of up to
\* MaxPathLen tokens, or the lookup of lines 35-36 for a document whose file
\* lies in a directory of up to MaxDepth names (the host's source_path is
\* absolute and normalized).

DirNames == {"r", "d"}
PathStrings(n) == UNION {[1..k -> {"/"} \cup DirNames] : k \in 0..n}
Dirs(n) == UNION {[1..k -> DirNames] : k \in 0..n}

\* The absolute, normalized path of the directory or file with these names.
ToPath(names) ==
    IF names = <<>> THEN <<"/">>
    ELSE [i \in 1..(2 * Len(names)) |-> IF i % 2 = 1 THEN "/" ELSE names[i \div 2]]

WorktreeSets == SUBSET {<<"/">>, <<"/", "r">>}

InitLocator ==
    /\ InitMainWith(<<>>, [date |-> <<>>, modified |-> <<>>])
    /\ pathIn = NoPaths
    /\ pathOut = <<>>
    /\ worktrees \in WorktreeSets
    /\ NoCalls

\* A call of the memoized function with what it returned and the probes it
\* made.
CallOf(via, source_path, path) ==
    [via |-> via, source_path |-> source_path, path |-> path,
     result |-> lru_cache(cache, path).result,
     probes |-> lru_cache(cache, path).probes]

\* The call is the earlier one, or the later one when there is an earlier.
Record(call) ==
    IF earlier = <<>>
    THEN earlier' = <<call>> /\ later' = later
    ELSE later = <<>> /\ later' = <<call>> /\ earlier' = earlier

\* discover_repository(path), called with any path.
DirectCall ==
    \E path \in PathStrings(MaxPathLen) :
        /\ Record(CallOf("call", <<>>, path))
        /\ cache' = lru_cache(cache, path).cache
        /\ UNCHANGED <<gitlog, doc, lists, stack, sent, last, written, finalized,
                       pathVars, worktrees>>

\* Lines 35-36: repository = discover_repository(os.path.dirname(source_path)).
HookLookup ==
    \E names \in Dirs(MaxDepth) :
        LET source_path == ToPath(Append(names, "f"))
        IN  /\ Record(CallOf("hook", source_path, PosixDirname(source_path)))
            /\ cache' = lru_cache(cache, PosixDirname(source_path)).cache
            /\ UNCHANGED <<gitlog, doc, lists, stack, sent, last, written,
                           finalized, pathVars, worktrees>>

NextLocator == DirectCall \/ HookLookup

SpecLocator == InitLocator /\ [][NextLocator]_vars

--------------------------------------------------------------------------
\* What the properties below speak of, stated from the repository's history
\* and not from what the hook computed.

TrackedFile(n) ==
    CASE n = "A" -> <<"a", ".", "md">>
      [] n = "B" -> <<"b", ".", "md">>
      [] n = "S" -> <<"s", ".", "css">>
      [] n = "X" -> <<"c", ".", "md">>

\* The log of n's file, newest first, and its i-th commit counted from the oldest.
Log(n) == SelectSeq(gitlog, LAMBDA c : TrackedFile(n) \in c.paths)
Oldest(n, i) == Log(n)[Len(Log(n)) + 1 - i]

Chain(o) == doc[o].git[1]
Built(n) == doc[Live(n)].git # <<>>
AllRevisions(n) == lists[Chain(Live(n)).revisions]

\* C1: once the hook has built the chain of a live document over N >= 1
\* commits, the newest revision has next None, the second newest (N >= 2) has
\* next the live document, every older one has next its successor in
\* all_revisions, and at most one revision has next the live document.
C1_NextPointers ==
    \A n \in Names : Built(n) =>
        LET revs == AllRevisions(n)
            N == Len(revs)
        IN  /\ N = Len(Log(n)) /\ N >= 1
            /\ Chain(revs[N]).next_revision = None
            /\ N >= 2 => Chain(revs[N - 1]).next_revision = Live(n)
            /\ \A i \in 1..(N - 2) : Chain(revs[i]).next_revision = revs[i + 1]
            /\ Cardinality({i \in 1..N : Chain(revs[i]).next_revision = Live(n)}) <= 1

C1_Witness ==
    /\ Built("A")
    /\ Len(AllRevisions("A")) = 3
    /\ Chain(Rev("A", 1)).next_revision = Rev("A", 2)
    /\ Chain(Rev("A", 2)).next_revision = Live("A")

\* C2: once the hook has built a chain, the oldest revision has previous None
\* and every other revision has previous its predecessor in all_revisions.
C2_PreviousPointers ==
    \A n \in Names : Built(n) =>
        LET revs == AllRevisions(n)
        IN  /\ Len(revs) >= 1
            /\ Chain(revs[1]).previous_revision = None
            /\ \A i \in 2..Len(revs) : Chain(revs[i]).previous_revision = revs[i - 1]

C2_Witness ==
    /\ Built("A")
    /\ Len(AllRevisions("A")) >= 2
    /\ Chain(Rev("A", 2)).previous_revision = Rev("A", 1)

\* C3: once the hook has built a chain, the date of every revision is the
\* authored timestamp of its commit, whatever the reader gave it; the modified
\* of every revision but the newest is the date of the next revision; the
\* modified of the newest is still what the reader gave it.
C3_RevisionDates ==
    \A n \in Names : Built(n) =>
        LET revs == AllRevisions(n)
            N == Len(revs)
        IN  /\ N = Len(Log(n))
            /\ \A i \in 1..N :
                 doc[revs[i]].date = <<FromTimestamp(Oldest(n, i).authored_date)>>
            /\ \A i \in 1..(N - 1) : doc[revs[i]].modified = doc[revs[i + 1]].date
            /\ doc[revs[N]].modified = doc[revs[N]].metadata.modified

C3_Witness ==
    /\ Built("A")
    /\ Len(AllRevisions("A")) = 3
    /\ doc[Rev("A", 1)].metadata.date = <<HostDate>>
    /\ doc[Rev("A", 3)].metadata.modified = <<HostModified>>
    /\ doc[Rev("A", 1)].modified # doc[Rev("A", 1)].date

\* The hook is about to run on the content at the top of the stack.
Invoked(o) == stack # <<>> /\ Top.pc = "enter" /\ Top.content = o

\* C4: an invocation of the hook on an object that carries a chain changes
\* that object's date and locale_date and, when its chain's previous is not
\* None, the previous sibling's modified and locale_modified, and nothing
\* else: no other attribute of the two, no other object, no list of
\* revisions; no revision is materialized and no signal is sent.
C4_ReentryFrame ==
    [][\A o \in DOMAIN doc : (Invoked(o) /\ doc[o].git # <<>>) =>
         LET previous == Chain(o).previous_revision
         IN  /\ DOMAIN doc' = DOMAIN doc
             /\ \A x \in DOMAIN doc : x \notin {o, previous} => doc'[x] = doc[x]
             /\ [doc'[o] EXCEPT !.date = doc[o].date,
                                !.locale_date = doc[o].locale_date] = doc[o]
             /\ previous # None =>
                  [doc'[previous] EXCEPT !.modified = doc[previous].modified,
                                         !.locale_modified = doc[previous].locale_modified]
                    = doc[previous]
             /\ lists' = lists
             /\ sent' = sent
             /\ stack' = SubSeq(stack, 1, Len(stack) - 1)]_vars

\* The hook has run a second time on the live document A: only that gives A
\* the date of its latest commit in place of the date of its metadata.
C4_Witness ==
    /\ Built("A")
    /\ stack = <<>>
    /\ doc[Live("A")].metadata.date = <<HostDate>>
    /\ doc[Live("A")].date # <<HostDate>>
    /\ Chain(Live("A")).previous_revision # None

\* C5: the date and the modified that the host's metadata gave a live
\* document are the document's date and modified for ever, however often the
\* hook runs on it and on its revisions.
C5_HostDatesKept ==
    \A n \in Names :
        /\ doc[Live(n)].metadata.date # <<>> =>
             doc[Live(n)].date = doc[Live(n)].metadata.date
        /\ doc[Live(n)].metadata.modified # <<>> =>
             doc[Live(n)].modified = doc[Live(n)].metadata.modified

\* C6: when a commit of a live document's history cannot be materialized, the
\* hook ends with what materializing raised, the live document never carries
\* a chain, the signal is sent for none of its revisions and the writer
\* writes none of them.
Unreadable(n) ==
    /\ doc[Live(n)].cls # "Static"
    /\ \E j \in 1..Len(Log(n)) : Log(n)[j].broken # "ok"

C6_FailedBuild ==
    \A n \in Names : Unreadable(n) =>
        /\ doc[Live(n)].git = <<>>
        /\ \A k \in 1..Len(sent) : NameOf(sent[k]) # n
        /\ \A k \in 1..Len(written) : NameOf(written[k].content) # n
        /\ (last.content = Live(n) /\ last.result # "running") =>
              \E j \in 1..Len(Log(n)) :
                  Log(n)[j].broken # "ok" /\ last.result = Log(n)[j].broken

\* The newest of A's three commits is rejected by the reader after two
\* revisions were read, and the writers have run since.
C6_Witness ==
    /\ Len(gitlog) = 3
    /\ gitlog[1].broken = "ReadError"
    /\ last = [content |-> Live("A"), result |-> "ReadError"]
    /\ finalized = {"article", "page"}

\* C7 as claimed: the authored timestamps of the anchor commits of
\* all_revisions increase strictly with the index, whatever the log returns.
C7_StrictlyIncreasing ==
    \A n \in Names : Built(n) =>
        LET revs == AllRevisions(n)
        IN  /\ Len(revs) >= 1
            /\ \A i \in 1..(Len(revs) - 1) :
                 Chain(revs[i]).commit.authored_date
                    < Chain(revs[i + 1]).commit.authored_date

\* C7 as amended: all_revisions is not empty and its anchor commits are the
\* commits of the log in the reverse of the log's order, the log's last entry
\* first; their authored timestamps are whatever the commits carry.
C7_ReverseOfLog ==
    \A n \in Names : Built(n) =>
        LET revs == AllRevisions(n)
            N == Len(revs)
        IN  /\ N >= 1
            /\ N = Len(Log(n))
            /\ \A i \in 1..N : Chain(revs[i]).commit = Log(n)[N + 1 - i]

\* A chain over a log whose newest commit was authored no later than the
\* commit before it.
C7_Witness ==
    /\ Built("A")
    /\ Len(Log("A")) >= 2
    /\ Log("A")[1].authored_date <= Log("A")[2].authored_date
    /\ Chain(Rev("A", Len(Log("A")))).commit = Log("A")[1]

\* The segments of a path: what lies between its slashes.
RECURSIVE Segments(_)
Segments(p) ==
    LET S == {i \in 1..Len(p) : p[i] = "/"}
    IN  IF S = {} THEN {p}
        ELSE LET i == CHOOSE x \in S : \A y \in S : x <= y
             IN  {SubSeq(p, 1, i - 1)} \cup Segments(SubSeq(p, i + 1, Len(p)))

\* A directory path made ready for a name to follow it.
WithSlash(p) == IF p = <<>> \/ p[Len(p)] = "/" THEN p ELSE p \o <<"/">>

\* join(base, segment, hexsha, "index" + ext) written out: base, then the
\* segment when there is one, then the hexsha, then "index" + ext, each
\* parted from the next by one slash that none of them brings along.
ExpectedSaveAs(url, save_as, hexsha) ==
    LET base == IF url # <<>> /\ url[Len(url)] = "/" THEN url ELSE PosixDirname(url)
        name == PosixBasename(save_as)
        root == Splitext(name)[1]
        ext == Splitext(name)[2]
        segment == IF root = <<"index">> THEN <<>> ELSE root
    IN  WithSlash(WithSlash(base) \o segment) \o <<hexsha, "/", "index">> \o ext

\* C8: the save_as of a revision is join(base, segment, hexsha, "index" + ext)
\* with base the url when it ends in a slash and else its dirname, and segment
\* the root of the basename of the live save_as, left out when it is "index";
\* the save_as of two commits differ, each has its own hexsha as a whole
\* segment, and the url of a revision is the dirname of its save_as.
C8_SaveAs ==
    pathOut # <<>> =>
        /\ \A i \in 1..Len(pathOut) :
             /\ pathOut[i].save_as
                  = ExpectedSaveAs(pathIn.url, pathIn.save_as, pathOut[i].hexsha)
             /\ <<pathOut[i].hexsha>> \in Segments(pathOut[i].save_as)
             /\ pathOut[i].url = PosixDirname(pathOut[i].save_as)
        /\ \A i, j \in 1..Len(pathOut) :
             pathOut[i].hexsha # pathOut[j].hexsha
                => pathOut[i].save_as # pathOut[j].save_as

\* A url that ends in a slash with a save_as named index: no segment.
C8_Witness ==
    /\ pathIn = [url |-> <<"a", "/">>, save_as |-> <<"a", "/", "index">>]
    /\ pathOut # <<>>
    /\ pathOut[1].save_as = <<"a", "/", "h1", "/", "index">>
    /\ pathOut[2].url = <<"a", "/", "h2">>

\* C9: the chain of a live document whose build is over has the latest commit
\* as its anchor, next None, and previous the second newest revision when
\* there are two or more and else None; the chain is attached once, when every
\* revision of all_revisions carries its own chain, and never replaced.
C9_LiveChainState ==
    \A n \in Names : Built(n) =>
        LET revs == AllRevisions(n)
            N == Len(revs)
        IN  /\ N = Len(Log(n)) /\ N >= 1
            /\ Chain(Live(n)).commit = Log(n)[1]
            /\ Chain(Live(n)).next_revision = None
            /\ Chain(Live(n)).previous_revision
                 = IF N >= 2 THEN revs[N - 1] ELSE None

C9_LiveChainStep ==
    \A n \in Names :
        /\ (doc[Live(n)].git = <<>> /\ doc'[Live(n)].git # <<>>) =>
              /\ Len(lists[n]) = Len(Log(n))
              /\ \A i \in 1..Len(lists[n]) : doc[lists[n][i]].git # <<>>
        /\ doc[Live(n)].git # <<>> => doc'[Live(n)].git = doc[Live(n)].git

C9_LiveChain == []C9_LiveChainState /\ [][C9_LiveChainStep]_vars

C9_Witness ==
    /\ Built("B")
    /\ Len(Log("B")) = 2
    /\ Chain(Live("B")).previous_revision = Rev("B", 1)
    /\ Chain(Live("B")).commit.hexsha = "h3"

\* C10: the hook returns at once, without raising and without any effect on
\* the documents, when its content is static, or lies in no repository, or
\* has no commit in the log.
Skipped(o) ==
    \/ doc[o].cls = "Static"
    \/ ~IsPrefix(WorkingDir \o <<"/">>, doc[o].source_path)
    \/ Log(NameOf(o)) = <<>>

C10_Skips ==
    [][\A o \in DOMAIN doc : (Invoked(o) /\ Skipped(o)) =>
         /\ doc' = doc
         /\ lists' = lists
         /\ sent' = sent
         /\ stack' = SubSeq(stack, 1, Len(stack) - 1)
         /\ last' = [content |-> o, result |-> "returned"]]_vars

\* The hook has returned for B, whose file is in no commit of a one-commit
\* log, after it had returned for X, which lies outside the repository.
C10_Witness ==
    /\ Len(gitlog) = 1
    /\ last = [content |-> Live("B"), result |-> "returned"]
    /\ DOMAIN cache = {<<"/", "r">>, <<"/", "x">>}
    /\ doc[Live("B")].git = <<>>

\* C11: when the hook runs on a live document without a chain whose file has
\* N >= 1 commits, a date that is unset becomes the authored timestamp of the
\* oldest commit and a date that is set stays; a modified that is unset
\* becomes the authored timestamp of the newest commit when N >= 2 and stays
\* unset when N = 1, and a modified that is set stays.
C11_InferredDates ==
    [][\A n \in Names :
         (Invoked(Live(n)) /\ doc[Live(n)].git = <<>> /\ ~Skipped(Live(n))) =>
            LET o == Live(n)
                N == Len(Log(n))
            IN  /\ doc'[o].date =
                     IF doc[o].date = <<>>
                     THEN <<FromTimestamp(Oldest(n, 1).authored_date)>>
                     ELSE doc[o].date
                /\ doc'[o].modified =
                     IF doc[o].modified = <<>> /\ N >= 2
                     THEN <<FromTimestamp(Oldest(n, N).authored_date)>>
                     ELSE doc[o].modified]_vars

\* The hook has inferred the date of A, whose metadata give none, from the
\* only commit of its file and has left its modified unset.
C11_Witness ==
    /\ Len(Log("A")) = 1
    /\ doc[Live("A")].metadata.date = <<>>
    /\ doc[Live("A")].metadata.modified = <<>>
    /\ doc[Live("A")].date = <<FromTimestamp(Oldest("A", 1).authored_date)>>
    /\ doc[Live("A")].modified = <<>>
    /\ stack # <<>> /\ Top.pc = "materialize"

\* C12: once the hook has built the chain of a live document over N commits,
\* the chain of the live document and the chain of each revision name the
\* same list all_revisions and the same tracked path; the list holds N
\* different revisions, the i-th of them read from the i-th oldest commit
\* (its save_as carries that commit's hexsha) and anchored at that commit.
C12_SharedSequence ==
    \A n \in Names : Built(n) =>
        LET live == Chain(Live(n))
            revs == lists[live.revisions]
        IN  /\ Len(revs) = Len(Log(n))
            /\ live.file_path = TrackedFile(n)
            /\ \A i \in 1..Len(revs) :
                 /\ Chain(revs[i]).revisions = live.revisions
                 /\ Chain(revs[i]).file_path = live.file_path
                 /\ Chain(revs[i]).commit = Oldest(n, i)
                 /\ doc[revs[i]].save_as =
                      ExpectedSaveAs(doc[Live(n)].url, doc[Live(n)].save_as,
                                     Oldest(n, i).hexsha)
                 /\ \A j \in 1..Len(revs) : revs[j] = revs[i] => j = i

\* B's chain is built over the two commits of b.md in a log of three, and
\* A's over all three.
C12_Witness ==
    /\ Built("A") /\ Built("B")
    /\ Len(AllRevisions("A")) = 3
    /\ Len(AllRevisions("B")) = 2
    /\ Chain(AllRevisions("B")[2]).commit.hexsha = "h3"
    /\ Chain(AllRevisions("A")[1]).commit.hexsha = "h1"

\* The contents of a generator, by the content type its writer is given.
ContentsOf(content_type) == IF content_type = "article" THEN Articles ELSE Pages

\* C13: when the writer of a generator has finalized, it has written, for
\* each document of the generator's contents that carries a chain, each
\* element of all_revisions once and in the order of the sequence, under the
\* revision's save_as with its resolved template and its category, the
\* newest revision included; it has written nothing for a document without a
\* chain and nothing for any other document.
C13_WritesPerRevision ==
    /\ \A content_type \in finalized :
         \A k \in 1..Len(ContentsOf(content_type)) :
            LET o == ContentsOf(content_type)[k]
                writes == SelectSeq(written,
                            LAMBDA w : /\ w.content_type = content_type
                                       /\ NameOf(w.content) = NameOf(o))
            IN  IF doc[o].git = <<>> THEN writes = <<>>
                ELSE LET revs == AllRevisions(NameOf(o))
                     IN  /\ Len(writes) = Len(Log(NameOf(o)))
                         /\ Len(writes) = Len(revs)
                         /\ \A i \in 1..Len(revs) :
                              /\ writes[i].content = revs[i]
                              /\ writes[i].name = doc[revs[i]].save_as
                              /\ writes[i].template = GetTemplate(doc[revs[i]].template)
                              /\ writes[i].category = doc[revs[i]].category
    /\ \A k \in 1..Len(written) :
         /\ written[k].content_type \in finalized
         /\ \E i \in 1..Len(ContentsOf(written[k].content_type)) :
              NameOf(ContentsOf(written[k].content_type)[i]) = NameOf(written[k].content)

\* Both writers have finalized: three revisions of the article A and two of
\* the page B are written, none for the article X, which carries no chain.
C13_Witness ==
    /\ finalized = {"article", "page"}
    /\ Built("A") /\ Built("B") /\ ~Built("X")
    /\ Len(written) = 5
    /\ written[3].content = Rev("A", 3)
    /\ written[5].content = Rev("B", 2)

\* The revisions of n's builds that exist as objects.
RevisionObjects(n) == {o \in DOMAIN doc : NameOf(o) = n /\ ~IsLive(o)}

\* C15 as claimed: a chain built over exactly one commit is attached to the
\* live document alone: no revision object exists, all_revisions is empty
\* and the writer writes nothing for the document.
C15_NoRevisions ==
    \A n \in Names : (Built(n) /\ Len(Log(n)) = 1) =>
        /\ AllRevisions(n) = <<>>
        /\ RevisionObjects(n) = {}
        /\ \A k \in 1..Len(written) : NameOf(written[k].content) # n

\* C15 as amended: a chain built over exactly one commit has one revision,
\* read from that commit and carrying a chain of its own with previous None
\* and next None; the live document's chain has previous None and next None;
\* and the writer of the document's generator writes that one revision.
C15_SoleRevision ==
    \A n \in Names : (Built(n) /\ Len(Log(n)) = 1) =>
        LET revs == AllRevisions(n)
        IN  /\ Len(revs) = 1
            /\ RevisionObjects(n) = {revs[1]}
            /\ doc[revs[1]].git # <<>>
            /\ Chain(revs[1]).commit = Log(n)[1]
            /\ Chain(revs[1]).previous_revision = None
            /\ Chain(revs[1]).next_revision = None
            /\ Chain(Live(n)).previous_revision = None
            /\ Chain(Live(n)).next_revision = None
            /\ \A content_type \in finalized :
                 (\E k \in 1..Len(ContentsOf(content_type)) :
                      ContentsOf(content_type)[k] = Live(n)) =>
                    SelectSeq(written, LAMBDA w : NameOf(w.content) = n)
                       = <<[name |-> doc[revs[1]].save_as,
                            template |-> GetTemplate(doc[revs[1]].template),
                            content_type |-> content_type,
                            content |-> revs[1],
                            category |-> doc[revs[1]].category]>>

\* The article A has one commit; its chain is built and its one revision is
\* written.
C15_Witness ==
    /\ Len(Log("A")) = 1
    /\ Built("A")
    /\ "article" \in finalized
    /\ Len(written) = 1
    /\ written[1].content = Rev("A", 1)

\* The signals sent for the revisions of n, in the order they were sent.
SentFor(n) == SelectSeq(sent, LAMBDA r : NameOf(r) = n)

\* An upper bound on the steps that the calls on the stack have yet to take.
StepsLeft(st) ==
    IF st = <<>> THEN 0
    ELSE LET N == Len(Log(NameOf(st[1].content)))
             f == st[1]
         IN  (CASE f.pc = "enter" -> 3 * N + 2
                [] f.pc = "materialize" -> 3 * N + 2 - f.index
                [] f.pc = "link" -> 2 * (N - f.index) + 3
                [] f.pc = "attach" -> 1)
             + (Len(st) - 1)

\* C16, what holds in every state: a call for a live document is at the
\* hook's entry, in one of its two loops at an index of that loop, or at the
\* assignment of the live chain; at most one call is nested in it, a call
\* at the hook's entry for a revision that carries its chain while the live
\* document carries none yet; the signals sent for a document's revisions are the revisions
\* of its list in chronological order, from the first on without a gap, all
\* N of them once the live chain is attached, each carrying its chain.
C16_SignalsState ==
    /\ stack # <<>> =>
         LET f == stack[1]
             N == Len(Log(NameOf(f.content)))
         IN  /\ IsLive(f.content)
             /\ \/ f.pc = "enter"
                \/ f.pc = "materialize" /\ f.index \in 1..N
                \/ f.pc = "link" /\ f.index \in 1..N
                \/ f.pc = "attach"
    /\ Len(stack) <= 2
    /\ Len(stack) = 2 =>
         /\ stack[2].pc = "enter"
         /\ ~IsLive(stack[2].content)
         /\ doc[stack[2].content].git # <<>>
         /\ stack[1].content = Live(NameOf(stack[2].content))
         /\ stack[1].pc \in {"link", "attach"}
         /\ doc[stack[1].content].git = <<>>
    /\ \A n \in Names :
         LET signals == SentFor(n)
         IN  /\ Len(signals) <= Len(lists[n])
             /\ \A k \in 1..Len(signals) :
                  /\ signals[k] = lists[n][k]
                  /\ doc[signals[k]].git # <<>>
                  /\ Chain(signals[k]).commit = Oldest(n, k)
             /\ Built(n) => Len(signals) = Len(Log(n))

\* C16, what holds of every step: a step of the hook lowers the bound on the
\* steps left; a signal is sent for a revision that has its chain when the
\* live document has none yet; a nested call returns in one step, creating no
\* object, changing no list and sending no signal.
C16_SignalsStep ==
    /\ stack # <<>> => StepsLeft(stack') < StepsLeft(stack)
    /\ sent' # sent =>
         /\ Len(sent') = Len(sent) + 1
         /\ SubSeq(sent', 1, Len(sent)) = sent
         /\ doc'[sent'[Len(sent')]].git # <<>>
         /\ doc'[Live(NameOf(sent'[Len(sent')]))].git = <<>>
         /\ Len(stack) = 1
    /\ Len(stack) = 2 =>
         /\ stack' = <<stack[1]>>
         /\ DOMAIN doc' = DOMAIN doc
         /\ lists' = lists
         /\ sent' = sent

C16_Signals == []C16_SignalsState /\ [][C16_SignalsStep]_vars

\* The call for the third revision of A is nested in the call for A, which
\* has left its loop and is about to attach the live chain.
C16_Witness ==
    /\ Len(stack) = 2
    /\ stack[1] = Frame(Live("A"), "attach", 0)
    /\ stack[2].content = Rev("A", 3)
    /\ SentFor("A") = <<Rev("A", 1), Rev("A", 2), Rev("A", 3)>>

\* The nodes of n's chain: its revisions and the live document.
Nodes(n) == {Live(n)} \cup {AllRevisions(n)[i] : i \in 1..Len(AllRevisions(n))}

\* C18: in a finished chain, whenever the next of a node x is a node y, the
\* previous of y is x; the newest revision is the next of no node; and with
\* N >= 2 revisions the newest revision and the live document both have the
\* second newest revision as their previous.
C18_Navigation ==
    \A n \in Names : Built(n) =>
        LET revs == AllRevisions(n)
            N == Len(revs)
        IN  /\ \A x \in Nodes(n) :
                 LET y == Chain(x).next_revision
                 IN  /\ y # None => (y \in Nodes(n) /\ Chain(y).previous_revision = x)
                     /\ y # revs[N]
            /\ N >= 2 =>
                 /\ Chain(revs[N]).previous_revision = revs[N - 1]
                 /\ Chain(Live(n)).previous_revision = revs[N - 1]

\* A's chain over three commits: the first revision leads to the second, the
\* second to the live document, the third nowhere.
C18_Witness ==
    /\ Built("A")
    /\ Len(AllRevisions("A")) = 3
    /\ Chain(Rev("A", 1)).next_revision = Rev("A", 2)
    /\ Chain(Rev("A", 2)).next_revision = Live("A")
    /\ Chain(Rev("A", 3)).next_revision = None
    /\ Chain(Rev("A", 3)).previous_revision = Rev("A", 2)

\* The outermost call of the hook, for the live document n, has ended with
\* what materializing a commit raised.
Failed(n) ==
    /\ last.content = Live(n)
    /\ last.result \in {"KeyError", "ReadError"}

\* C19 as claimed: after a build that failed, the live document carries no
\* chain and has the date and the modified, set or unset, that it had
\* before the hook ran on it, which are those of its metadata.
C19_StateUnchanged ==
    \A n \in Names : Failed(n) =>
        /\ doc[Live(n)].git = <<>>
        /\ doc[Live(n)].date = doc[Live(n)].metadata.date
        /\ doc[Live(n)].modified = doc[Live(n)].metadata.modified

\* C19 as amended: after a build that failed, the live document carries no
\* chain and no revision of it is left; a date and a modified that its
\* metadata set are unchanged; a date that was unset is the authored
\* timestamp of the oldest commit; a modified that was unset is the authored
\* timestamp of the newest commit when there are two commits or more, and is
\* still unset when there is one.
C19_DatesInferredBeforeFailure ==
    \A n \in Names : Failed(n) =>
        LET o == Live(n)
            N == Len(Log(n))
        IN  /\ doc[o].git = <<>>
            /\ RevisionObjects(n) = {}
            /\ doc[o].date =
                 IF doc[o].metadata.date = <<>>
                 THEN <<FromTimestamp(Oldest(n, 1).authored_date)>>
                 ELSE doc[o].metadata.date
            /\ doc[o].modified =
                 IF doc[o].metadata.modified = <<>> /\ N >= 2
                 THEN <<FromTimestamp(Oldest(n, N).authored_date)>>
                 ELSE doc[o].metadata.modified

\* The newer of A's two commits could not be read; A, whose metadata set no
\* date and no modified, has both from its commits and carries no chain.
C19_Witness ==
    /\ Failed("A")
    /\ Len(Log("A")) = 2
    /\ Log("A")[1].broken # "ok"
    /\ doc[Live("A")].metadata = [date |-> <<>>, modified |-> <<>>]
    /\ doc[Live("A")].date # <<>>
    /\ doc[Live("A")].modified # <<>>
    /\ doc[Live("A")].git = <<>>

\* C20: two different live documents with different url and different
\* save_as never have revisions of one commit under one save_as.
C20_NoCollision ==
    \A n, m \in Names :
        (/\ n # m
         /\ Built(n) /\ Built(m)
         /\ doc[Live(n)].url # doc[Live(m)].url
         /\ doc[Live(n)].save_as # doc[Live(m)].save_as) =>
            \A i \in 1..Len(AllRevisions(n)), j \in 1..Len(AllRevisions(m)) :
                Chain(AllRevisions(n)[i]).commit = Chain(AllRevisions(m)[j]).commit =>
                    doc[AllRevisions(n)[i]].save_as # doc[AllRevisions(m)[j]].save_as

\* The calls of discover_repository made so far.
Calls == earlier \o later

\* The directory with these names holds a .git.
IsWorktree(names) == \E w \in worktrees : Directory(w) = names

\* The directories from the one with these names up to the nearest that
\* holds a .git, or up to the root when none does; and that nearest one's
\* repository, <<>> when there is none.
Enclosing(names) == {k \in 0..Len(names) : IsWorktree(SubSeq(names, 1, k))}
UpwardFrom(names) ==
    LET stop == IF Enclosing(names) = {} THEN 0 ELSE Max(Enclosing(names))
    IN  [i \in 1..(Len(names) - stop + 1) |-> SubSeq(names, 1, Len(names) + 1 - i)]
NearestRepository(names) ==
    IF Enclosing(names) = {} THEN <<>>
    ELSE <<CHOOSE w \in worktrees :
             Directory(w) = SubSeq(names, 1, Max(Enclosing(names)))>>

\* C14 as claimed: when the hook has looked up the repository of one
\* document, its later lookup for the same path, or for a file of the
\* repository the earlier lookup found, probes nothing and returns what the
\* earlier lookup returned.
C14_CachedPerRepository ==
    (/\ earlier # <<>> /\ later # <<>>
     /\ earlier[1].via = "hook" /\ later[1].via = "hook"
     /\ \/ later[1].path = earlier[1].path
        \/ /\ earlier[1].result # <<>>
           /\ NearestRepository(Directory(PosixDirname(later[1].source_path)))
                = earlier[1].result) =>
        /\ later[1].probes = <<>>
        /\ later[1].result = earlier[1].result

\* C14 as amended: a later call with the path of an earlier call, the hook's
\* lookup for a file of the same directory included, probes nothing and
\* returns what the earlier call returned, a repository or None; a later
\* call with any other path probes again, starting at that path, also when
\* the file lies in the repository the earlier call found.
C14_CachedPerPath ==
    (earlier # <<>> /\ later # <<>>) =>
        IF later[1].path = earlier[1].path
        THEN /\ later[1].probes = <<>>
             /\ later[1].result = earlier[1].result
        ELSE /\ later[1].probes # <<>>
             /\ later[1].probes[1] = later[1].path

\* No directory holds a .git: the hook's lookup for /r/f probed /r and the
\* root and returned None, and its second lookup for /r/f probed nothing.
C14_Witness ==
    /\ worktrees = {}
    /\ earlier = <<[via |-> "hook", source_path |-> <<"/", "r", "/", "f">>,
                    path |-> <<"/", "r">>, result |-> <<>>,
                    probes |-> << <<"/", "r">>, <<"/">> >>]>>
    /\ later = <<[via |-> "hook", source_path |-> <<"/", "r", "/", "f">>,
                  path |-> <<"/", "r">>, result |-> <<>>, probes |-> <<>>]>>

\* C17: a call of discover_repository that runs the function probes the
\* directory of its path and then each directory above it, in upward order
\* and each once, up to the nearest that holds a .git, or up to the root
\* when none does, and returns that nearest one's repository or None.
C17_WalkToRoot ==
    \A i \in 1..Len(Calls) : Calls[i].probes # <<>> =>
        /\ [k \in 1..Len(Calls[i].probes) |-> Directory(Calls[i].probes[k])]
              = UpwardFrom(Directory(Calls[i].path))
        /\ Calls[i].result = NearestRepository(Directory(Calls[i].path))

====
